---- MODULE Spec2Model ----
(***************************************************************************)
(* Model of sentry_rate_limiting/process_event_limiter.py:                 *)
(* PerProcessPerIssueEventLimiter (a per-fingerprint sliding window of     *)
(* admitted event timestamps) and build_event_fingerprint.                 *)
(*                                                                         *)
(* Time is counted in seconds; a datetime is a natural number of seconds   *)
(* and a timedelta is a number of seconds.  Python strings are TLA+        *)
(* strings, concatenated with \o.  A Python dict with optional keys is a   *)
(* record with one has_<key> flag per optional key.                        *)
(***************************************************************************)
EXTENDS Integers, Sequences, FiniteSets, TLC

VARIABLES
    recorded,                     \* self.recorded: fingerprint -> deque of datetimes
    keyOrder,                     \* insertion order of the keys of self.recorded
    rate_limit_window,            \* self.rate_limit_window (timedelta, seconds)
    rate_limit_number_of_events,  \* self.rate_limit_number_of_events
    now,                          \* the wall clock read by datetime.now
    event,                        \* the event argument of the latest call
    hint,                         \* the hint argument of the latest call
    ret,                          \* what the latest call did and returned
    history,                      \* log of the should_rate_limit calls that returned
    twin,                         \* a second limiter, fed a second run of calls
    pc,                           \* per thread: position inside should_rate_limit
    frame                         \* per thread: the locals of its should_rate_limit

vars == <<recorded, keyOrder, rate_limit_window, rate_limit_number_of_events,
          now, event, hint, ret, history, twin, pc, frame>>

----------------------------------------------------------------------------
(* Bounds of the model. *)

MaxCap == 2
MaxWindowMinutes == 1
MaxTime == 105
MaxCalls == 3
ScenarioCalls == 7
TwinMaxTime == 61
ThreadMaxTime == 61
MaxThreadCalls == 3
NumThreads == 2
MaxCaptures == 2

(* The limiter of the worked scenario: at most 2 events per 1 minute. *)
ScenarioCap == 2
ScenarioWindowMinutes == 1

(* timedelta(minutes=m) in seconds. *)
SecondsPerMinute == 60

(* The amounts by which the clock advances between calls: less than a      *)
(* window, exactly one window of one minute, and one second more.          *)
ClockSteps == {44, 60, 61}

----------------------------------------------------------------------------
(* Inputs: events and hints. *)

FrameA == [filename |-> "a.py", lineno |-> 7]
FrameB == [filename |-> "b.py", lineno |-> 12]
FrameC == [filename |-> "a.py", lineno |-> 70]

(* traceback.extract_tb(exc_tb): the static (filename, lineno) summary. *)
Tracebacks == {<<>>, <<FrameA>>, <<FrameA, FrameB>>, <<FrameA, FrameC>>}

SentryFrame(f) == [abs_path |-> f.filename, lineno |-> f.lineno]
ThreadOf(tb) == [stacktrace |-> [frames |-> [i \in 1..Len(tb) |-> SentryFrame(tb[i])]]]

ThreadsValues ==
    {<<>>, <<ThreadOf(<<FrameA, FrameB>>)>>, <<ThreadOf(<<FrameB>>)>>,
     <<ThreadOf(<<FrameA>>), ThreadOf(<<FrameB>>)>>}

NoThreads == [has_values |-> FALSE, values |-> <<>>]

(* event: "threads" may be absent; when present it may lack "values". *)
Events ==
    {[has_threads |-> FALSE, threads |-> NoThreads]}
    \cup {[has_threads |-> TRUE, threads |-> NoThreads]}
    \cup {[has_threads |-> TRUE, threads |-> [has_values |-> TRUE, values |-> v]] :
            v \in ThreadsValues}

NoExcInfo == [is_triple |-> FALSE, tb |-> <<>>]
NoLogRecord == [pathname |-> "", lineno |-> 0, msg |-> "", args |-> ""]

LogRecords ==
    {[pathname |-> "a.py", lineno |-> 7, msg |-> "user %s", args |-> a] : a \in {"one", "two"}}
    \cup {[pathname |-> "a.py", lineno |-> 70, msg |-> "user %s", args |-> "one"]}

(* hint: "exc_info" may be absent, a (type, value, traceback) triple, or a *)
(* value that is no triple (None); "log_record" may be absent.             *)
ExcInfos ==
    {[has |-> FALSE, val |-> NoExcInfo], [has |-> TRUE, val |-> NoExcInfo]}
    \cup {[has |-> TRUE, val |-> [is_triple |-> TRUE, tb |-> tb]] : tb \in Tracebacks}

LogRecordSlots ==
    {[has |-> FALSE, val |-> NoLogRecord]} \cup {[has |-> TRUE, val |-> r] : r \in LogRecords}

Hints ==
    {[has_exc_info |-> x.has, exc_info |-> x.val,
      has_log_record |-> l.has, log_record |-> l.val] : x \in ExcInfos, l \in LogRecordSlots}

EmptyEvent == [has_threads |-> FALSE, threads |-> NoThreads]
EmptyHint == [has_exc_info |-> FALSE, exc_info |-> NoExcInfo,
              has_log_record |-> FALSE, log_record |-> NoLogRecord]

----------------------------------------------------------------------------
(* Results of a call that may raise. *)

Returned(v) == [raised |-> FALSE, exc |-> "", msg |-> "", value |-> v]
Raised(exc, msg) == [raised |-> TRUE, exc |-> exc, msg |-> msg, value |-> ""]

UnhandledCaseMsg == "unhandled case in build_event_fingerprint"
MultipleThreadsMsg == "got multiple values in sentry 'threads' attribute!"

----------------------------------------------------------------------------
(* String formatting. *)

Digit(d) == CASE d = 0 -> "0" [] d = 1 -> "1" [] d = 2 -> "2" [] d = 3 -> "3"
              [] d = 4 -> "4" [] d = 5 -> "5" [] d = 6 -> "6" [] d = 7 -> "7"
              [] d = 8 -> "8" [] d = 9 -> "9"

(* str(n) for a natural number n, as an f-string formats it. *)
RECURSIVE IntToStr(_)
IntToStr(n) == IF n < 10 THEN Digit(n) ELSE IntToStr(n \div 10) \o Digit(n % 10)

(* "\n".join(lines) *)
RECURSIVE JoinLines(_)
JoinLines(lines) ==
    IF lines = <<>> THEN ""
    ELSE IF Len(lines) = 1 THEN lines[1]
    ELSE lines[1] \o "\n" \o JoinLines(Tail(lines))

----------------------------------------------------------------------------
(* The fingerprint extractor. *)

fingerprint_from_exc_info(h) ==
    IF ~h.exc_info.is_triple
    THEN Raised("TypeError", "object is not subscriptable")
    ELSE LET tb_summary == h.exc_info.tb
         IN Returned(JoinLines([i \in 1..Len(tb_summary) |->
                tb_summary[i].filename \o ":" \o IntToStr(tb_summary[i].lineno)]))

fingerprint_from_threads(e) ==
    IF ~e.threads.has_values THEN Raised("KeyError", "values")
    ELSE IF Len(e.threads.values) > 1 THEN Raised("NotImplementedError", MultipleThreadsMsg)
    ELSE IF Len(e.threads.values) = 0 THEN Raised("IndexError", "list index out of range")
    ELSE LET frames == e.threads.values[1].stacktrace.frames
         IN Returned(JoinLines([i \in 1..Len(frames) |->
                frames[i].abs_path \o ":" \o IntToStr(frames[i].lineno)]))

(* Mutation of fingerprint_from_log_record: the interpolated message       *)
(* (record.getMessage()) is used instead of the template.                  *)
fingerprint_from_log_record_interpolated(h) ==
    LET log_record == h.log_record
    IN Returned("LogRecord " \o log_record.pathname \o ":" \o IntToStr(log_record.lineno)
                \o " " \o log_record.msg \o " % " \o log_record.args)

fingerprint_from_log_record(h) ==
    LET log_record == h.log_record
    IN Returned("LogRecord " \o log_record.pathname \o ":" \o IntToStr(log_record.lineno)
                \o " " \o log_record.msg)

(* Mutation of build_event_fingerprint: the log record is looked at before *)
(* the thread stacks.                                                      *)
build_event_fingerprint_log_first(e, h) ==
    IF h.has_exc_info THEN fingerprint_from_exc_info(h)
    ELSE IF h.has_log_record THEN fingerprint_from_log_record(h)
    ELSE IF e.has_threads THEN fingerprint_from_threads(e)
    ELSE Raised("NotImplementedError", UnhandledCaseMsg)

build_event_fingerprint(e, h) ==
    IF h.has_exc_info THEN fingerprint_from_exc_info(h)
    ELSE IF e.has_threads THEN fingerprint_from_threads(e)
    ELSE IF h.has_log_record THEN fingerprint_from_log_record(h)
    ELSE Raised("NotImplementedError", UnhandledCaseMsg)

----------------------------------------------------------------------------
(* PerProcessPerIssueEventLimiter: the sequential semantics of its methods *)
(* as functions of the mapping `rec` (self.recorded).                      *)

(* Mutation of PopExpired: the loop is never entered. *)
PopExpired_never(timestamps, boundary) == timestamps

(* Mutation of PopExpired: a timestamp equal to the boundary is popped     *)
(* too.                                                                    *)
RECURSIVE PopExpired_inclusive(_, _)
PopExpired_inclusive(timestamps, boundary) ==
    IF timestamps # <<>> /\ Head(timestamps) <= boundary
    THEN PopExpired_inclusive(Tail(timestamps), boundary)
    ELSE timestamps

(* Mutation of PopExpired: `if` in place of `while`, at most one entry is  *)
(* popped.                                                                 *)
PopExpired_once(timestamps, boundary) ==
    IF timestamps # <<>> /\ Head(timestamps) < boundary THEN Tail(timestamps) ELSE timestamps

(* while timestamps and timestamps[0] < boundary: timestamps.popleft() *)
RECURSIVE PopExpired(_, _)
PopExpired(timestamps, boundary) ==
    IF timestamps # <<>> /\ Head(timestamps) < boundary
    THEN PopExpired(Tail(timestamps), boundary)
    ELSE timestamps

(* Mutation of remove_old_records: nothing is purged. *)
remove_old_records_keeps_all(rec, t) == rec

(* Mutation of remove_old_records: a key whose deque the purge has emptied *)
(* is deleted from the mapping.                                            *)
remove_old_records_evicts(rec, t) ==
    LET boundary == t - rate_limit_window
        kept == {f \in DOMAIN rec : PopExpired(rec[f], boundary) # <<>>}
    IN [f \in kept |-> PopExpired(rec[f], boundary)]

(* remove_old_records(now): purges the deque of every key of the mapping. *)
remove_old_records(rec, t) ==
    LET boundary == t - rate_limit_window
    IN [f \in DOMAIN rec |-> PopExpired(rec[f], boundary)]

(* self.recorded[fingerprint] on a defaultdict(deque): a missing key is    *)
(* inserted with an empty deque.                                           *)
GetOrCreate(rec, fingerprint) ==
    IF fingerprint \in DOMAIN rec THEN rec ELSE rec @@ (fingerprint :> <<>>)

KeyOrderAfter(order, rec, fingerprint) ==
    IF fingerprint \in DOMAIN rec THEN order ELSE Append(order, fingerprint)

(* Mutation of DropEvent: the comparison is off by one. *)
DropEvent_off_by_one(fingerprint_timestamps) ==
    Len(fingerprint_timestamps) > rate_limit_number_of_events

(* Mutation of DropEvent: no event is ever dropped. *)
DropEvent_never(fingerprint_timestamps) == FALSE

(* drop_event = len(fingerprint_timestamps) >= self.rate_limit_number_of_events *)
DropEvent(fingerprint_timestamps) ==
    Len(fingerprint_timestamps) >= rate_limit_number_of_events

(* Mutation of RateLimitKnown: the timestamp is appended for a dropped     *)
(* event too.                                                              *)
RateLimitKnown_records_drops(rec, fingerprint, t) ==
    LET purged == remove_old_records(rec, t)
        looked == GetOrCreate(purged, fingerprint)
    IN [recorded |-> [looked EXCEPT ![fingerprint] = Append(@, t)],
        drop |-> DropEvent(looked[fingerprint])]

(* Mutation of RateLimitKnown: the event is dropped when the deque of any  *)
(* fingerprint is full, not that of its own.                               *)
RateLimitKnown_any_full(rec, fingerprint, t) ==
    LET purged == remove_old_records(rec, t)
        looked == GetOrCreate(purged, fingerprint)
        drop_event == \E f \in DOMAIN looked : DropEvent(looked[f])
    IN [recorded |-> IF drop_event THEN looked
                     ELSE [looked EXCEPT ![fingerprint] = Append(@, t)],
        drop |-> drop_event]

(* Mutation of RateLimitKnown: the timestamp is put at the front of the    *)
(* deque (appendleft).                                                     *)
RateLimitKnown_appendleft(rec, fingerprint, t) ==
    LET purged == remove_old_records(rec, t)
        looked == GetOrCreate(purged, fingerprint)
        drop_event == DropEvent(looked[fingerprint])
    IN [recorded |-> IF drop_event THEN looked
                     ELSE [looked EXCEPT ![fingerprint] = <<t>> \o @],
        drop |-> drop_event]

(* The body of should_rate_limit after the fingerprint is known: the new   *)
(* mapping and the returned drop_event.                                    *)
RateLimitKnown(rec, fingerprint, t) ==
    LET purged == remove_old_records(rec, t)
        looked == GetOrCreate(purged, fingerprint)
        drop_event == DropEvent(looked[fingerprint])
    IN [recorded |-> IF drop_event THEN looked
                     ELSE [looked EXCEPT ![fingerprint] = Append(@, t)],
        drop |-> drop_event]

(* Mutation of should_rate_limit: the purge runs before the fingerprint is *)
(* built.                                                                  *)
should_rate_limit_purges_first(rec, e, h, t) ==
    LET fp == build_event_fingerprint(e, h)
    IN IF fp.raised
       THEN [raised |-> TRUE, exc |-> fp.exc, msg |-> fp.msg,
             fingerprint |-> "", drop |-> FALSE, recorded |-> remove_old_records(rec, t)]
       ELSE LET out == RateLimitKnown(rec, fp.value, t)
            IN [raised |-> FALSE, exc |-> "", msg |-> "",
                fingerprint |-> fp.value, drop |-> out.drop, recorded |-> out.recorded]

(* should_rate_limit(event, hint) at clock reading t: a failure of the     *)
(* extractor propagates before anything is read or written.                *)
should_rate_limit(rec, e, h, t) ==
    LET fp == build_event_fingerprint(e, h)
    IN IF fp.raised
       THEN [raised |-> TRUE, exc |-> fp.exc, msg |-> fp.msg,
             fingerprint |-> "", drop |-> FALSE, recorded |-> rec]
       ELSE LET out == RateLimitKnown(rec, fp.value, t)
            IN [raised |-> FALSE, exc |-> "", msg |-> "",
                fingerprint |-> fp.value, drop |-> out.drop, recorded |-> out.recorded]

(* Mutation of before_send: an exception of should_rate_limit drops the    *)
(* event instead of letting it through.                                    *)
before_send_fail_closed(rec, e, h, t) ==
    LET inner == should_rate_limit(rec, e, h, t)
        drop_event == IF inner.raised THEN TRUE ELSE inner.drop
    IN [raised |-> FALSE, exc |-> "", msg |-> "",
        inner_raised |-> inner.raised, inner_exc |-> inner.exc,
        fingerprint |-> inner.fingerprint, drop |-> inner.drop,
        warnings |-> IF inner.raised THEN 1 ELSE 0,
        returned_none |-> drop_event,
        returned |-> IF drop_event THEN EmptyEvent ELSE e,
        recorded |-> inner.recorded]

(* Mutation of before_send: the decision is translated the wrong way round. *)
before_send_inverted(rec, e, h, t) ==
    LET inner == should_rate_limit(rec, e, h, t)
        drop_event == IF inner.raised THEN FALSE ELSE ~inner.drop
    IN [raised |-> FALSE, exc |-> "", msg |-> "",
        inner_raised |-> inner.raised, inner_exc |-> inner.exc,
        fingerprint |-> inner.fingerprint, drop |-> inner.drop,
        warnings |-> IF inner.raised THEN 1 ELSE 0,
        returned_none |-> drop_event,
        returned |-> IF drop_event THEN EmptyEvent ELSE e,
        recorded |-> inner.recorded]

(* before_send(event, hint): try should_rate_limit; on any exception log   *)
(* one warning and do not drop; return None to drop, else the event.       *)
before_send(rec, e, h, t) ==
    LET inner == should_rate_limit(rec, e, h, t)
        drop_event == IF inner.raised THEN FALSE ELSE inner.drop
    IN [raised |-> FALSE, exc |-> "", msg |-> "",
        inner_raised |-> inner.raised, inner_exc |-> inner.exc,
        fingerprint |-> inner.fingerprint, drop |-> inner.drop,
        warnings |-> IF inner.raised THEN 1 ELSE 0,
        returned_none |-> drop_event,
        returned |-> IF drop_event THEN EmptyEvent ELSE e,
        recorded |-> inner.recorded]

----------------------------------------------------------------------------
(* The state machine: one limiter, called from one thread. *)

Threads == 1..NumThreads

EmptyMapping == [f \in {} |-> <<>>]

NoRet == [op |-> "none", raised |-> FALSE, exc |-> "", msg |-> "",
          inner_raised |-> FALSE, fingerprint |-> "", drop |-> FALSE,
          warnings |-> 0, returned_none |-> FALSE, returned |-> EmptyEvent,
          at |-> 0, before |-> <<>>, after_drop |-> FALSE]

NoTwin == [recorded |-> EmptyMapping, tracked |-> "", drop |-> FALSE, synced |-> FALSE]

IdleFrame == [fingerprint |-> "", now |-> 0, size |-> 0, idx |-> 0,
              drop |-> FALSE, exc |-> "", before |-> <<>>]

(* The record of a fingerprint, empty when the mapping has no such key. *)
RecordOf(rec, fingerprint) ==
    IF fingerprint \in DOMAIN rec THEN rec[fingerprint] ELSE <<>>

(* The (event, hint) pairs the limiter is called with: the malformed       *)
(* ({}, {}), a raise site, a logged exception rendered into one thread     *)
(* stack from the same site, an event with two thread entries, one with    *)
(* none, one whose "threads" has no "values", a hint whose exc_info is no  *)
(* triple, and a stackless log call with two different arguments.          *)
HintWith(tb) == [EmptyHint EXCEPT !.has_exc_info = TRUE,
                                  !.exc_info = [is_triple |-> TRUE, tb |-> tb]]
HintLog(a) == [EmptyHint EXCEPT !.has_log_record = TRUE,
                 !.log_record = [pathname |-> "a.py", lineno |-> 7,
                                 msg |-> "user %s", args |-> a]]
EventThreads(v) == [has_threads |-> TRUE, threads |-> [has_values |-> TRUE, values |-> v]]

LimiterInputs ==
    {<<EmptyEvent, EmptyHint>>,
     <<EmptyEvent, HintWith(<<FrameA, FrameB>>)>>,
     <<EventThreads(<<ThreadOf(<<FrameA, FrameB>>)>>), EmptyHint>>,
     <<EventThreads(<<ThreadOf(<<FrameA>>), ThreadOf(<<FrameB>>)>>), EmptyHint>>,
     <<EventThreads(<<>>), EmptyHint>>,
     <<[has_threads |-> TRUE, threads |-> NoThreads], EmptyHint>>,
     <<EmptyEvent, [EmptyHint EXCEPT !.has_exc_info = TRUE]>>,
     <<EmptyEvent, HintLog("one")>>,
     <<EmptyEvent, HintLog("two")>>}

(* PerProcessPerIssueEventLimiter(rate_limit_window_minutes, rate_limit_number_of_events) *)
Constructed(minutes, number_of_events) ==
    /\ recorded = EmptyMapping
    /\ keyOrder = <<>>
    /\ rate_limit_window = minutes * SecondsPerMinute
    /\ rate_limit_number_of_events = number_of_events

NothingCalled ==
    /\ now = 0
    /\ ret = NoRet
    /\ history = <<>>
    /\ pc = [t \in Threads |-> "idle"]
    /\ frame = [t \in Threads |-> IdleFrame]

Quiet ==
    /\ NothingCalled
    /\ twin = NoTwin
    /\ event = EmptyEvent
    /\ hint = EmptyHint

Init ==
    /\ \E minutes \in 1..MaxWindowMinutes, number_of_events \in 0..MaxCap :
          Constructed(minutes, number_of_events)
    /\ Quiet

(* The clock moves forward between calls. *)
Tick(d) ==
    /\ now + d <= MaxTime
    /\ now' = now + d
    /\ UNCHANGED <<recorded, keyOrder, rate_limit_window, rate_limit_number_of_events,
                   event, hint, ret, history, twin, pc, frame>>

Logged(out) ==
    IF out.inner_raised THEN history
    ELSE Append(history, [fingerprint |-> out.fingerprint, at |-> out.at, drop |-> out.drop])

(* Whether the call before this one returned true for this fingerprint. *)
FollowsDropOf(fingerprint) ==
    /\ ret.op \in {"should_rate_limit", "before_send"}
    /\ ~ret.inner_raised
    /\ ret.drop
    /\ ret.fingerprint = fingerprint

(* should_rate_limit(e, h) runs from call to return: its effect on the     *)
(* limiter and what the caller observes.                                   *)
ShouldRateLimitStep(e, h) ==
    \E out \in {should_rate_limit(recorded, e, h, now)} :
       /\ recorded' = out.recorded
       /\ keyOrder' = IF out.raised THEN keyOrder
                      ELSE KeyOrderAfter(keyOrder, recorded, out.fingerprint)
       /\ event' = e
       /\ hint' = h
       /\ ret' = [NoRet EXCEPT !.op = "should_rate_limit", !.raised = out.raised,
                               !.exc = out.exc, !.msg = out.msg,
                               !.inner_raised = out.raised,
                               !.fingerprint = out.fingerprint, !.drop = out.drop,
                               !.at = now,
                               !.before = RecordOf(recorded, out.fingerprint),
                               !.after_drop = ~out.raised /\ FollowsDropOf(out.fingerprint)]

(* before_send(e, h) runs from call to return. *)
BeforeSendStep(e, h) ==
    \E out \in {before_send(recorded, e, h, now)} :
       /\ recorded' = out.recorded
       /\ keyOrder' = IF out.inner_raised THEN keyOrder
                      ELSE KeyOrderAfter(keyOrder, recorded, out.fingerprint)
       /\ event' = e
       /\ hint' = h
       /\ ret' = [NoRet EXCEPT !.op = "before_send", !.raised = out.raised,
                               !.exc = out.exc, !.msg = out.msg,
                               !.inner_raised = out.inner_raised,
                               !.fingerprint = out.fingerprint, !.drop = out.drop,
                               !.warnings = out.warnings,
                               !.returned_none = out.returned_none,
                               !.returned = out.returned,
                               !.at = now,
                               !.before = RecordOf(recorded, out.fingerprint),
                               !.after_drop = ~out.inner_raised
                                              /\ FollowsDropOf(out.fingerprint)]

(* A direct call of should_rate_limit(e, h), entered in the log. *)
CallShouldRateLimit(e, h) ==
    /\ ShouldRateLimitStep(e, h)
    /\ history' = Logged(ret')
    /\ UNCHANGED <<rate_limit_window, rate_limit_number_of_events, now, twin, pc, frame>>

(* A call of before_send(e, h), as the host pipeline makes it. *)
CallBeforeSend(e, h) ==
    /\ BeforeSendStep(e, h)
    /\ history' = Logged(ret')
    /\ UNCHANGED <<rate_limit_window, rate_limit_number_of_events, now, twin, pc, frame>>

Next ==
    \/ \E d \in ClockSteps : Tick(d)
    \/ \E in \in LimiterInputs : Len(history) < MaxCalls /\ CallShouldRateLimit(in[1], in[2])
    \/ \E in \in LimiterInputs : Len(history) < MaxCalls /\ CallBeforeSend(in[1], in[2])

Spec == Init /\ [][Next]_vars

----------------------------------------------------------------------------
(* Properties of the single-threaded limiter (specification Spec). *)

(* The calls of the log that were admitted for the same fingerprint as     *)
(* call i, before it, with a timestamp inside the window of call i.        *)
AdmittedInWindowBefore(i) ==
    {j \in 1..(i - 1) :
        /\ history[j].fingerprint = history[i].fingerprint
        /\ ~history[j].drop
        /\ history[j].at >= history[i].at - rate_limit_window}

(* The admitted calls of one fingerprint inside the closed interval of     *)
(* length rate_limit_window that starts at call i.                         *)
AdmittedInIntervalFrom(i) ==
    {j \in 1..Len(history) :
        /\ history[j].fingerprint = history[i].fingerprint
        /\ ~history[j].drop
        /\ history[i].at <= history[j].at
        /\ history[j].at <= history[i].at + rate_limit_window}

(* C1: with a non-decreasing clock, a call is admitted if and only if      *)
(* fewer than rate_limit_number_of_events earlier admitted calls of the    *)
(* same fingerprint have a timestamp >= now - window; and no closed        *)
(* interval of one window length holds more admitted calls of one          *)
(* fingerprint than the cap.                                               *)
C1_AdmittedIffBelowCap ==
    /\ \A i \in 1..Len(history) :
          (~history[i].drop) <=>
              (Cardinality(AdmittedInWindowBefore(i)) < rate_limit_number_of_events)
    /\ \A i \in 1..Len(history) :
          Cardinality(AdmittedInIntervalFrom(i)) <= rate_limit_number_of_events

(* A fingerprint was admitted up to the cap, then dropped, and admitted    *)
(* again once the clock had moved.                                         *)
C1_Witness ==
    /\ rate_limit_number_of_events >= 1
    /\ \E i, j \in 1..Len(history) :
          /\ i < j
          /\ history[i].fingerprint = history[j].fingerprint
          /\ history[i].drop
          /\ ~history[j].drop
          /\ history[j].at > history[i].at

IsEmptyInput == event = EmptyEvent /\ hint = EmptyHint

(* C3: before_send never raises; when should_rate_limit raised inside it   *)
(* (the input ({}, {}) included) it returns the event it was given, not    *)
(* None, and has logged exactly one warning.                               *)
C3_BeforeSendFailsOpen ==
    ret.op = "before_send" =>
        /\ ~ret.raised
        /\ IsEmptyInput => ret.inner_raised
        /\ ret.inner_raised =>
              /\ ~ret.returned_none
              /\ ret.returned = event
              /\ ret.warnings = 1

(* before_send was called with ({}, {}) on a limiter that holds records,   *)
(* and with an event that carries two thread entries.                      *)
C3_Witness ==
    /\ ret.op = "before_send"
    /\ ret.inner_raised
    /\ ret.warnings = 1
    /\ \/ IsEmptyInput /\ DOMAIN recorded # {}
       \/ event.has_threads /\ Len(event.threads.values) > 1

(* The timestamps of `timestamps` that are inside the window ending at t. *)
InWindow(timestamps, t) ==
    SelectSeq(timestamps, LAMBDA ts : ts >= t - rate_limit_window)

(* The timestamps of the admitted calls of a fingerprint, in call order. *)
AdmittedTimes(fingerprint) ==
    LET admitted == SelectSeq(history,
                        LAMBDA c : c.fingerprint = fingerprint /\ ~c.drop)
    IN [k \in 1..Len(admitted) |-> admitted[k].at]

IsSuffix(s, whole) ==
    /\ Len(s) <= Len(whole)
    /\ s = SubSeq(whole, Len(whole) - Len(s) + 1, Len(whole))

ReturnedDrop ==
    /\ ret.op \in {"should_rate_limit", "before_send"}
    /\ ~ret.inner_raised
    /\ ret.drop

(* C4: a call that returns true leaves in the fingerprint's record exactly *)
(* the entries that survived the purge; every record is made of the        *)
(* timestamps of admitted calls only.                                      *)
C4_DropDoesNotRecord ==
    /\ ReturnedDrop =>
          recorded[ret.fingerprint] = InWindow(ret.before, ret.at)
    /\ \A f \in DOMAIN recorded : IsSuffix(recorded[f], AdmittedTimes(f))

(* An occurrence was dropped while the record held admitted timestamps. *)
C4_Witness ==
    /\ ReturnedDrop
    /\ ret.before # <<>>
    /\ Len(AdmittedTimes(ret.fingerprint)) = rate_limit_number_of_events

(* C7: before_send returns None exactly when should_rate_limit returned    *)
(* true, which is when the record held at least the cap of timestamps      *)
(* inside the window; otherwise it returns the event it was given.         *)
C7_BeforeSendTranslatesDecision ==
    ret.op = "before_send" =>
        /\ ret.returned_none <=> (~ret.inner_raised /\ ret.drop)
        /\ ret.returned_none <=>
              /\ ~ret.inner_raised
              /\ Len(InWindow(ret.before, ret.at)) >= rate_limit_number_of_events
        /\ ~ret.returned_none => ret.returned = event

(* before_send has returned None for an event with a stack. *)
C7_Witness ==
    /\ ret.op = "before_send"
    /\ ret.returned_none
    /\ rate_limit_number_of_events >= 1
    /\ event # EmptyEvent

(* The latest call got a fingerprint and went through purge, check and     *)
(* append.                                                                 *)
ReturnedCall ==
    /\ ret.op \in {"should_rate_limit", "before_send"}
    /\ ~ret.inner_raised

(* C13: after the purge of a call made at time `at`, every timestamp       *)
(* retained in every record of the mapping is >= at - window.              *)
C13_PurgeLeavesNoExpired ==
    ReturnedCall =>
        \A f \in DOMAIN recorded : \A k \in 1..Len(recorded[f]) :
            recorded[f][k] >= ret.at - rate_limit_window

(* A purge popped two expired timestamps from the front of a record. *)
C13_Witness ==
    /\ ReturnedCall
    /\ Len(ret.before) >= 2
    /\ \A k \in 1..Len(ret.before) : ret.before[k] < ret.at - rate_limit_window
    /\ recorded[ret.fingerprint] = <<ret.at>>

(* C14: every record is time-ordered oldest-first: its timestamps are      *)
(* non-decreasing from front to back.                                      *)
C14_RecordsTimeOrdered ==
    \A f \in DOMAIN recorded : \A k \in 1..(Len(recorded[f]) - 1) :
        recorded[f][k] <= recorded[f][k + 1]

(* A record holds two timestamps of different clock readings. *)
C14_Witness ==
    /\ ReturnedCall
    /\ ~ret.drop
    /\ Len(recorded[ret.fingerprint]) >= 2
    /\ recorded[ret.fingerprint][1] < recorded[ret.fingerprint][2]

(* C15: no record holds more timestamps than rate_limit_number_of_events.  *)
C15_RecordBoundedByCap ==
    \A f \in DOMAIN recorded : Len(recorded[f]) <= rate_limit_number_of_events

(* A call found its record full and was dropped while another fingerprint *)
(* holds a record of its own.                                              *)
C15_Witness ==
    /\ ReturnedCall
    /\ ret.drop
    /\ Len(recorded[ret.fingerprint]) = rate_limit_number_of_events
    /\ \E f \in DOMAIN recorded : f # ret.fingerprint /\ recorded[f] # <<>>

(* The fingerprints of the calls that got past the extractor. *)
OccurredFingerprints == {history[i].fingerprint : i \in 1..Len(history)}

KeysAreOccurred == DOMAIN recorded = OccurredFingerprints

(* C16: the mapping holds a key for exactly the fingerprints that have     *)
(* occurred in a should_rate_limit call, and no step removes a key, not    *)
(* even when every timestamp of its record has been purged.                *)
C16_KeysOnlyGrow ==
    /\ []KeysAreOccurred
    /\ [][DOMAIN recorded \subseteq DOMAIN recorded']_vars

(* The record of a fingerprint that was admitted has been emptied by a     *)
(* purge and its key is still there.                                       *)
C16_Witness ==
    \E i \in 1..Len(history) :
        /\ ~history[i].drop
        /\ history[i].fingerprint \in DOMAIN recorded
        /\ recorded[history[i].fingerprint] = <<>>

IsPrefix(s, whole) ==
    /\ Len(s) <= Len(whole)
    /\ s = SubSeq(whole, 1, Len(s))

(* The record the latest call found holds exactly the cap of timestamps,   *)
(* all of one clock reading.                                               *)
FoundFullOfOneReading ==
    /\ ReturnedCall
    /\ rate_limit_number_of_events >= 1
    /\ Len(ret.before) = rate_limit_number_of_events
    /\ \A k \in 1..Len(ret.before) : ret.before[k] = Head(ret.before)

(* C17: the purge keeps a timestamp equal to now - window; a call that     *)
(* finds its record full of cap timestamps t is dropped up to and at       *)
(* t + window, the record being left as it was, and is admitted only       *)
(* strictly after t + window.                                              *)
C17_BoundaryInclusive ==
    /\ ReturnedCall =>
          IsPrefix(InWindow(ret.before, ret.at), recorded[ret.fingerprint])
    /\ FoundFullOfOneReading =>
          /\ ret.drop <=> (ret.at <= Head(ret.before) + rate_limit_window)
          /\ ret.at = Head(ret.before) + rate_limit_window
                => recorded[ret.fingerprint] = ret.before

(* A call made exactly one window after the timestamps that fill its       *)
(* record was dropped.                                                     *)
C17_Witness ==
    /\ FoundFullOfOneReading
    /\ ret.at = Head(ret.before) + rate_limit_window
    /\ ret.drop

(* C18: a should_rate_limit call for a fingerprint leaves the record of    *)
(* every other fingerprint, and its presence in the mapping, as it was     *)
(* before the call.                                                        *)
C18_OtherRecordsUntouched ==
    [][(ret'.op \in {"should_rate_limit", "before_send"} /\ ~ret'.inner_raised) =>
          /\ DOMAIN recorded' \ {ret'.fingerprint} = DOMAIN recorded \ {ret'.fingerprint}
          /\ \A g \in DOMAIN recorded \ {ret'.fingerprint} :
                recorded'[g] = recorded[g]]_vars

(* C19: a should_rate_limit call whose fingerprint extraction fails raises *)
(* to its caller, before_send absorbing it, and leaves the mapping as it   *)
(* was: nothing purged, no key created, nothing appended.                  *)
C19_FailureLeavesStateUnchanged ==
    [][(ret'.inner_raised /\ now' = now) =>
          /\ recorded' = recorded
          /\ keyOrder' = keyOrder
          /\ ret'.op = "should_rate_limit" => ret'.raised
          /\ ret'.op = "before_send" => ~ret'.raised /\ ~ret'.returned_none]_vars

(* should_rate_limit raised on ({}, {}) while a record holds a timestamp   *)
(* that a purge at this clock reading would have removed.                  *)
C19_Witness ==
    /\ ret.op = "should_rate_limit"
    /\ ret.raised
    /\ IsEmptyInput
    /\ ret.at = now
    /\ \E f \in DOMAIN recorded :
          recorded[f] # <<>> /\ Head(recorded[f]) < now - rate_limit_window

----------------------------------------------------------------------------
(* The extractor alone: build_event_fingerprint applied to one (event,     *)
(* hint) pair drawn from every combination of present, absent and          *)
(* malformed sub-structures.                                               *)

InitFingerprint ==
    /\ Constructed(MaxWindowMinutes, MaxCap)
    /\ NothingCalled
    /\ twin = NoTwin
    /\ event \in Events
    /\ hint \in Hints

CallBuildEventFingerprint ==
    /\ ret.op = "none"
    /\ \E out \in {build_event_fingerprint(event, hint)} :
          ret' = [NoRet EXCEPT !.op = "build_event_fingerprint",
                               !.raised = out.raised, !.exc = out.exc,
                               !.msg = out.msg, !.fingerprint = out.value]
    /\ UNCHANGED <<recorded, keyOrder, rate_limit_window, rate_limit_number_of_events,
                   now, event, hint, history, twin, pc, frame>>

SpecFingerprint == InitFingerprint /\ [][CallBuildEventFingerprint]_vars

FingerprintResult ==
    [raised |-> ret.raised, exc |-> ret.exc, msg |-> ret.msg, value |-> ret.fingerprint]

IsUnsupportedShape(r) ==
    r.raised /\ r.exc = "NotImplementedError" /\ r.msg = UnhandledCaseMsg

IsAmbiguousMultiThread(r) ==
    r.raised /\ r.exc = "NotImplementedError" /\ r.msg = MultipleThreadsMsg

(* C9: the first matching shape decides, in the order exc_info, threads,   *)
(* log_record: with exc_info in the hint the traceback fingerprint is      *)
(* the result whatever else is present; else with threads in the event     *)
(* the thread-stack fingerprint is, log record or not; else with a log     *)
(* record the log-record fingerprint is; else the call fails with the      *)
(* unhandled-case error.                                                   *)
C9_FirstMatchWins ==
    ret.op = "build_event_fingerprint" =>
        /\ hint.has_exc_info =>
              FingerprintResult = fingerprint_from_exc_info(hint)
        /\ (~hint.has_exc_info /\ event.has_threads) =>
              FingerprintResult = fingerprint_from_threads(event)
        /\ (~hint.has_exc_info /\ ~event.has_threads /\ hint.has_log_record) =>
              FingerprintResult = fingerprint_from_log_record(hint)
        /\ (~hint.has_exc_info /\ ~event.has_threads /\ ~hint.has_log_record) =>
              IsUnsupportedShape(FingerprintResult)

(* An event with one thread stack and a hint with a log record and no      *)
(* exc_info got the thread-stack fingerprint.                              *)
C9_Witness ==
    /\ ret.op = "build_event_fingerprint"
    /\ ~hint.has_exc_info
    /\ event.has_threads
    /\ hint.has_log_record
    /\ ~ret.raised
    /\ ret.fingerprint = "b.py:12"

(* C10: in the thread-stack fallback one thread entry gives the joined     *)
(* "<path>:<line>" fingerprint, more than one entry fails with the         *)
(* multiple-threads error, which is not the unhandled-case error, and no   *)
(* entry fails with one of these two errors.                               *)
C10_ThreadFallbackDeclaredErrors ==
    (/\ ret.op = "build_event_fingerprint"
     /\ ~hint.has_exc_info
     /\ event.has_threads
     /\ event.threads.has_values) =>
        LET n == Len(event.threads.values)
        IN /\ n = 1 => ~ret.raised
           /\ n > 1 => /\ IsAmbiguousMultiThread(FingerprintResult)
                       /\ ~IsUnsupportedShape(FingerprintResult)
           /\ n = 0 => \/ IsAmbiguousMultiThread(FingerprintResult)
                       \/ IsUnsupportedShape(FingerprintResult)

----------------------------------------------------------------------------
(* Captures side by side: build_event_fingerprint is applied to one        *)
(* capture after another and every capture is logged with the (file, line) *)
(* frame sequence it carried.  A file name is whatever string the code     *)
(* object (co_filename) or the event (abs_path) holds; FrameNewline is a   *)
(* frame of a file whose name contains a colon and a newline.              *)

FrameNewline == [filename |-> "a.py:7\nb.py", lineno |-> 12]

CaptureTracebacks ==
    {<<>>, <<FrameA>>, <<FrameB>>, <<FrameC>>, <<FrameA, FrameB>>, <<FrameB, FrameA>>,
     <<FrameA, FrameC>>, <<FrameNewline>>}

(* A raise site captured with its traceback in the hint, and the same      *)
(* stack rendered into one thread entry of the event.                      *)
CaptureInputs ==
    {<<EmptyEvent, HintWith(tb)>> : tb \in CaptureTracebacks}
    \cup {<<EventThreads(<<ThreadOf(tb)>>), EmptyHint>> : tb \in CaptureTracebacks}

(* The (file, line) pairs of the frames the extractor reads. *)
FramesOf(e, h) ==
    IF h.has_exc_info
    THEN [i \in 1..Len(h.exc_info.tb) |->
            <<h.exc_info.tb[i].filename, h.exc_info.tb[i].lineno>>]
    ELSE LET frames == e.threads.values[1].stacktrace.frames
         IN [i \in 1..Len(frames) |-> <<frames[i].abs_path, frames[i].lineno>>]

InitCaptures ==
    /\ Constructed(MaxWindowMinutes, MaxCap)
    /\ Quiet

Capture(e, h) ==
    /\ Len(history) < MaxCaptures
    /\ \E out \in {build_event_fingerprint(e, h)} :
          /\ ret' = [NoRet EXCEPT !.op = "build_event_fingerprint",
                                  !.raised = out.raised, !.exc = out.exc,
                                  !.msg = out.msg, !.fingerprint = out.value]
          /\ history' = Append(history, [frames |-> FramesOf(e, h), raised |-> out.raised,
                                         fingerprint |-> out.value])
    /\ event' = e
    /\ hint' = h
    /\ UNCHANGED <<recorded, keyOrder, rate_limit_window, rate_limit_number_of_events,
                   now, twin, pc, frame>>

NextCaptures == \E in \in CaptureInputs : Capture(in[1], in[2])

SpecCaptures == InitCaptures /\ [][NextCaptures]_vars

(* C11: two captures with the same (file, line) frame sequence get the     *)
(* same fingerprint, and two captures whose frame sequences differ get     *)
(* different fingerprints.                                                 *)
C11_FingerprintInjective ==
    \A i, j \in 1..Len(history) :
        /\ ~history[i].raised
        /\ (history[i].frames = history[j].frames)
              <=> (history[i].fingerprint = history[j].fingerprint)

----------------------------------------------------------------------------
(* Stackless log calls: should_rate_limit is called with hints that carry  *)
(* only a log record, and every call is logged with its log record.        *)

(* Two call sites, one of them called with two different arguments and     *)
(* with a second message template.                                         *)
LogCallRecords ==
    LogRecords \cup {[pathname |-> "a.py", lineno |-> 7, msg |-> "job %s", args |-> "one"]}

HintOfLogRecord(r) ==
    [EmptyHint EXCEPT !.has_log_record = TRUE, !.log_record = r]

LogCall(r) ==
    /\ Len(history) < MaxCalls
    /\ ShouldRateLimitStep(EmptyEvent, HintOfLogRecord(r))
    /\ history' = Append(history, [log_record |-> r, fingerprint |-> ret'.fingerprint,
                                   at |-> ret'.at, drop |-> ret'.drop])
    /\ UNCHANGED <<rate_limit_window, rate_limit_number_of_events, now, twin, pc, frame>>

NextLog ==
    \/ \E d \in ClockSteps : Tick(d)
    \/ \E r \in LogCallRecords : LogCall(r)

SpecLog == Init /\ [][NextLog]_vars

(* Same source path, line number and message template. *)
SameLogSite(r1, r2) ==
    /\ r1.pathname = r2.pathname
    /\ r1.lineno = r2.lineno
    /\ r1.msg = r2.msg

(* The earlier admitted log calls from the call site and template of call  *)
(* i, whatever their arguments, with a timestamp inside the window of i.   *)
AdmittedFromSiteBefore(i) ==
    {j \in 1..(i - 1) :
        /\ SameLogSite(history[j].log_record, history[i].log_record)
        /\ ~history[j].drop
        /\ history[j].at >= history[i].at - rate_limit_window}

(* C12: log calls with the same path, line and message template get the    *)
(* same fingerprint whatever their arguments, and a log call that follows  *)
(* rate_limit_number_of_events admitted calls from its site and template   *)
(* inside the window is dropped whatever its arguments.                    *)
C12_LogArgsShareWindow ==
    /\ \A i, j \in 1..Len(history) :
          SameLogSite(history[i].log_record, history[j].log_record)
              => history[i].fingerprint = history[j].fingerprint
    /\ \A i \in 1..Len(history) :
          Cardinality(AdmittedFromSiteBefore(i)) >= rate_limit_number_of_events
              => history[i].drop

(* A log call was dropped after the cap was used up by calls from the same *)
(* site whose arguments all differ from its own.                           *)
C12_Witness ==
    /\ rate_limit_number_of_events >= 1
    /\ history # <<>>
    /\ history[Len(history)].drop
    /\ Cardinality(AdmittedFromSiteBefore(Len(history))) = rate_limit_number_of_events
    /\ \A j \in AdmittedFromSiteBefore(Len(history)) :
          history[j].log_record.args # history[Len(history)].log_record.args

----------------------------------------------------------------------------
(* The worked scenario: one raise site, a limiter of 2 events per minute,  *)
(* should_rate_limit called at clock readings the clock steps can reach.   *)

ScenarioInput == <<EmptyEvent, HintWith(<<FrameA, FrameB>>)>>

InitScenario ==
    /\ Constructed(ScenarioWindowMinutes, ScenarioCap)
    /\ Quiet

NextScenario ==
    \/ \E d \in ClockSteps : Tick(d)
    \/ /\ Len(history) < ScenarioCalls
       /\ CallShouldRateLimit(ScenarioInput[1], ScenarioInput[2])

SpecScenario == InitScenario /\ [][NextScenario]_vars

(* Occurrences 1-3 at t0, 4-5 at t0 + 61 s, 6-7 at t0 + 105 s. *)
ScenarioTimes == <<0, 0, 0, 61, 61, 105, 105>>

(* The log so far is the first n calls of the scenario. *)
FollowsScenario(n) ==
    /\ n <= Len(history)
    /\ n <= Len(ScenarioTimes)
    /\ \A k \in 1..n : history[k].at = ScenarioTimes[k]

DecisionsAre(drops) ==
    \A n \in 1..Len(drops) : FollowsScenario(n) => history[n].drop = drops[n]

(* C8 as stated: occurrences 1, 2 admitted, 3 dropped, 4, 5 admitted,      *)
(* 6 admitted, 7 dropped.                                                  *)
C8_ScenarioAsStated ==
    DecisionsAre(<<FALSE, FALSE, TRUE, FALSE, FALSE, FALSE, TRUE>>)

(* C8, amended: occurrences 1, 2 admitted, 3 dropped, 4, 5 admitted, and   *)
(* at t0 + 105 s occurrences 6 and 7 both dropped, because 4 and 5, both   *)
(* stamped t0 + 61 s, are still inside the window.                         *)
C8_Scenario ==
    DecisionsAre(<<FALSE, FALSE, TRUE, FALSE, FALSE, TRUE, TRUE>>)

(* The seven calls of the scenario have been made. *)
C8_Witness ==
    /\ FollowsScenario(Len(ScenarioTimes))
    /\ recorded[ret.fingerprint] = <<61, 61>>

----------------------------------------------------------------------------
(* Two runs side by side: `recorded` is the limiter of the first run and   *)
(* twin.recorded that of the second.  Both limiters are constructed alike. *)
(* The calls for the fingerprint twin.tracked are made in both runs, at    *)
(* the same clock readings; every other call is made in one run only.      *)

(* The calls of the two runs: a raise site, a stackless log call and the   *)
(* malformed ({}, {}).                                                     *)
TwinInputs ==
    {<<EmptyEvent, HintWith(<<FrameA, FrameB>>)>>,
     <<EmptyEvent, HintLog("one")>>,
     <<EmptyEvent, EmptyHint>>}

TrackedFingerprints ==
    {build_event_fingerprint(in[1], in[2]).value :
        in \in {i \in TwinInputs : ~build_event_fingerprint(i[1], i[2]).raised}}

IsTracked(e, h) ==
    LET fp == build_event_fingerprint(e, h)
    IN ~fp.raised /\ fp.value = twin.tracked

InitTwin ==
    /\ \E minutes \in 1..MaxWindowMinutes, number_of_events \in 0..MaxCap :
          Constructed(minutes, number_of_events)
    /\ NothingCalled
    /\ event = EmptyEvent
    /\ hint = EmptyHint
    /\ \E f \in TrackedFingerprints : twin = [NoTwin EXCEPT !.tracked = f]

(* A call for the tracked fingerprint, made in both runs. *)
CallInBothRuns(e, h) ==
    /\ IsTracked(e, h)
    /\ ShouldRateLimitStep(e, h)
    /\ \E out \in {should_rate_limit(twin.recorded, e, h, now)} :
          twin' = [twin EXCEPT !.recorded = out.recorded, !.drop = out.drop,
                               !.synced = TRUE]
    /\ UNCHANGED <<rate_limit_window, rate_limit_number_of_events, now, history, pc, frame>>

(* A call for another fingerprint (or one that raises), first run only. *)
CallInFirstRun(e, h) ==
    /\ ~IsTracked(e, h)
    /\ ShouldRateLimitStep(e, h)
    /\ twin' = [twin EXCEPT !.synced = FALSE]
    /\ UNCHANGED <<rate_limit_window, rate_limit_number_of_events, now, history, pc, frame>>

(* A call for another fingerprint (or one that raises), second run only. *)
CallInSecondRun(e, h) ==
    /\ ~IsTracked(e, h)
    /\ \E out \in {should_rate_limit(twin.recorded, e, h, now)} :
          twin' = [twin EXCEPT !.recorded = out.recorded, !.synced = FALSE]
    /\ UNCHANGED <<recorded, keyOrder, rate_limit_window, rate_limit_number_of_events,
                   now, event, hint, ret, history, pc, frame>>

NextTwin ==
    \/ \E d \in ClockSteps : now + d <= TwinMaxTime /\ Tick(d)
    \/ \E in \in TwinInputs : CallInBothRuns(in[1], in[2])
    \/ \E in \in TwinInputs : CallInFirstRun(in[1], in[2])
    \/ \E in \in TwinInputs : CallInSecondRun(in[1], in[2])

SpecTwin == InitTwin /\ [][NextTwin]_vars

(* C6: two runs with the same calls for one fingerprint, at the same       *)
(* clock readings, and arbitrary other calls in between, give every call   *)
(* for that fingerprint the same decision.                                 *)
C6_NonInterference ==
    twin.synced => (ret.drop = twin.drop)

(* A call for the tracked fingerprint was dropped in both runs while only  *)
(* the first run holds a record of another fingerprint.                    *)
C6_Witness ==
    /\ twin.synced
    /\ ret.drop
    /\ twin.drop
    /\ \E g \in DOMAIN recorded : g \notin DOMAIN twin.recorded /\ recorded[g] # <<>>

----------------------------------------------------------------------------
(* Occurrences that keep arriving while the clock keeps advancing: the     *)
(* calls are not logged, the clock stops at MaxTime, and every call and    *)
(* the clock are treated fairly.                                           *)

(* The occurrences that keep arriving: a raise site and a stackless log    *)
(* call.                                                                   *)
LiveInputs ==
    {<<EmptyEvent, HintWith(<<FrameA, FrameB>>)>>, <<EmptyEvent, HintLog("one")>>}

LiveCall(e, h) ==
    /\ ShouldRateLimitStep(e, h)
    /\ UNCHANGED <<rate_limit_window, rate_limit_number_of_events, now, history,
                   twin, pc, frame>>

ClockAdvance == \E d \in ClockSteps : Tick(d)

(* A limiter with a cap of at least 1. *)
InitLive ==
    /\ \E minutes \in 1..MaxWindowMinutes, number_of_events \in 1..MaxCap :
          Constructed(minutes, number_of_events)
    /\ Quiet

NextLive ==
    \/ ClockAdvance
    \/ \E in \in LiveInputs : LiveCall(in[1], in[2])

SpecLive ==
    /\ InitLive
    /\ [][NextLive]_vars
    /\ WF_vars(ClockAdvance)
    /\ \A in \in LiveInputs : WF_vars(LiveCall(in[1], in[2]))

ReturnedFor(fingerprint) ==
    /\ ret.op = "should_rate_limit"
    /\ ~ret.raised
    /\ ret.fingerprint = fingerprint

(* The clock has stopped before the oldest retained timestamp of the       *)
(* fingerprint could leave the window.                                     *)
ClockStoppedInsideWindow(fingerprint) ==
    /\ \A d \in ClockSteps : now + d > MaxTime
    /\ RecordOf(recorded, fingerprint) # <<>>
    /\ now <= Head(recorded[fingerprint]) + rate_limit_window

(* A call made later than the oldest retained timestamp plus the window    *)
(* is admitted.                                                            *)
AdmittedOnceAgedOut ==
    (/\ ret.op = "should_rate_limit"
     /\ ~ret.raised
     /\ rate_limit_number_of_events >= 1
     /\ ret.before # <<>>
     /\ ret.at > Head(ret.before) + rate_limit_window) => ~ret.drop

(* C5: with a cap of at least 1, an occurrence that arrives later than the *)
(* oldest retained timestamp plus the window is admitted, and after any    *)
(* drop of a fingerprint a later occurrence of it is eventually admitted,  *)
(* unless the clock stops before the oldest retained timestamp has left    *)
(* the window.                                                             *)
C5_NeverSilenced ==
    /\ []AdmittedOnceAgedOut
    /\ \A f \in TrackedFingerprints :
          [](( /\ ReturnedFor(f)
               /\ ret.drop
               /\ rate_limit_number_of_events >= 1 )
             => <>((ReturnedFor(f) /\ ~ret.drop) \/ ClockStoppedInsideWindow(f)))

(* An occurrence was admitted right after a drop of the same fingerprint,  *)
(* the clock having passed the oldest retained timestamp plus the window.  *)
C5_Witness ==
    /\ ret.op = "should_rate_limit"
    /\ ret.after_drop
    /\ ~ret.drop
    /\ ret.before # <<>>
    /\ ret.at > Head(ret.before) + rate_limit_window

----------------------------------------------------------------------------
(* Several threads inside should_rate_limit at once.  The method takes no  *)
(* lock, so a thread may be preempted between any two of its statements;   *)
(* each action below is one of them.  frame[t] holds the locals of thread  *)
(* t: fingerprint, now, the dict iterator of remove_old_records (the size  *)
(* of the dict when the iterator was made and the position reached) and    *)
(* drop_event.                                                             *)

ThreadInputs ==
    {<<EmptyEvent, HintWith(<<FrameA, FrameB>>)>>, <<EmptyEvent, HintLog("one")>>}

InFlight == {t \in Threads : pc[t] # "idle"}

ThreadVarsUnchanged ==
    UNCHANGED <<rate_limit_window, rate_limit_number_of_events, now, twin>>

Goto(t, label) == pc' = [pc EXCEPT ![t] = label]

(* fingerprint = build_event_fingerprint(event, hint); now = datetime.now() *)
Enter(t, e, h) ==
    /\ pc[t] = "idle"
    /\ Len(history) + Cardinality(InFlight) < MaxThreadCalls
    /\ \E fp \in {build_event_fingerprint(e, h)} :
          IF fp.raised
          THEN /\ Goto(t, "raise")
               /\ frame' = [frame EXCEPT ![t] = [IdleFrame EXCEPT !.exc = fp.exc]]
          ELSE /\ Goto(t, "purge_start")
               /\ frame' = [frame EXCEPT ![t] =
                     [IdleFrame EXCEPT !.fingerprint = fp.value, !.now = now,
                                       !.before = RecordOf(recorded, fp.value)]]
    /\ event' = e
    /\ hint' = h
    /\ UNCHANGED <<recorded, keyOrder, ret, history>>
    /\ ThreadVarsUnchanged

(* for timestamps in self.recorded.values(): the iterator is made. *)
PurgeStart(t) ==
    /\ pc[t] = "purge_start"
    /\ frame' = [frame EXCEPT ![t].size = Len(keyOrder), ![t].idx = 0]
    /\ Goto(t, "purge_next")
    /\ UNCHANGED <<recorded, keyOrder, event, hint, ret, history>>
    /\ ThreadVarsUnchanged

(* The iterator is advanced: RuntimeError when the dict has changed size   *)
(* since the iterator was made, the end of the loop when it is exhausted.  *)
PurgeNext(t) ==
    /\ pc[t] = "purge_next"
    /\ IF Len(keyOrder) # frame[t].size
       THEN /\ frame' = [frame EXCEPT ![t].exc = "RuntimeError"]
            /\ Goto(t, "raise")
       ELSE IF frame[t].idx = frame[t].size
       THEN /\ frame' = frame
            /\ Goto(t, "lookup")
       ELSE /\ frame' = [frame EXCEPT ![t].idx = @ + 1]
            /\ Goto(t, "purge_test")
    /\ UNCHANGED <<recorded, keyOrder, event, hint, ret, history>>
    /\ ThreadVarsUnchanged

CurrentDeque(t) == recorded[keyOrder[frame[t].idx]]

(* while timestamps ...: the deque is tested for emptiness. *)
PurgeTest(t) ==
    /\ pc[t] = "purge_test"
    /\ Goto(t, IF CurrentDeque(t) # <<>> THEN "purge_head" ELSE "purge_next")
    /\ UNCHANGED <<recorded, keyOrder, event, hint, ret, history, frame>>
    /\ ThreadVarsUnchanged

(* ... and timestamps[0] < boundary: IndexError on a deque emptied since. *)
PurgeHead(t) ==
    /\ pc[t] = "purge_head"
    /\ IF CurrentDeque(t) = <<>>
       THEN /\ frame' = [frame EXCEPT ![t].exc = "IndexError"]
            /\ Goto(t, "raise")
       ELSE /\ frame' = frame
            /\ Goto(t, IF Head(CurrentDeque(t)) < frame[t].now - rate_limit_window
                       THEN "purge_pop" ELSE "purge_next")
    /\ UNCHANGED <<recorded, keyOrder, event, hint, ret, history>>
    /\ ThreadVarsUnchanged

(* timestamps.popleft(): IndexError on a deque emptied since. *)
PurgePop(t) ==
    /\ pc[t] = "purge_pop"
    /\ IF CurrentDeque(t) = <<>>
       THEN /\ frame' = [frame EXCEPT ![t].exc = "IndexError"]
            /\ Goto(t, "raise")
            /\ recorded' = recorded
       ELSE /\ frame' = frame
            /\ Goto(t, "purge_test")
            /\ recorded' = [recorded EXCEPT ![keyOrder[frame[t].idx]] = Tail(@)]
    /\ UNCHANGED <<keyOrder, event, hint, ret, history>>
    /\ ThreadVarsUnchanged

(* fingerprint_timestamps = self.recorded[fingerprint] *)
Lookup(t) ==
    /\ pc[t] = "lookup"
    /\ recorded' = GetOrCreate(recorded, frame[t].fingerprint)
    /\ keyOrder' = KeyOrderAfter(keyOrder, recorded, frame[t].fingerprint)
    /\ Goto(t, "check")
    /\ UNCHANGED <<event, hint, ret, history, frame>>
    /\ ThreadVarsUnchanged

(* drop_event = len(fingerprint_timestamps) >= self.rate_limit_number_of_events *)
CheckCap(t) ==
    /\ pc[t] = "check"
    /\ \E drop_event \in {DropEvent(recorded[frame[t].fingerprint])} :
          /\ frame' = [frame EXCEPT ![t].drop = drop_event]
          /\ Goto(t, IF drop_event THEN "return" ELSE "append")
    /\ UNCHANGED <<recorded, keyOrder, event, hint, ret, history>>
    /\ ThreadVarsUnchanged

(* fingerprint_timestamps.append(now) *)
AppendNow(t) ==
    /\ pc[t] = "append"
    /\ recorded' = [recorded EXCEPT ![frame[t].fingerprint] = Append(@, frame[t].now)]
    /\ Goto(t, "return")
    /\ UNCHANGED <<keyOrder, event, hint, ret, history, frame>>
    /\ ThreadVarsUnchanged

(* return drop_event *)
Return(t) ==
    /\ pc[t] = "return"
    /\ ret' = [NoRet EXCEPT !.op = "should_rate_limit",
                            !.fingerprint = frame[t].fingerprint,
                            !.drop = frame[t].drop, !.at = frame[t].now,
                            !.before = frame[t].before]
    /\ history' = Append(history, [fingerprint |-> frame[t].fingerprint,
                                   at |-> frame[t].now, drop |-> frame[t].drop])
    /\ Goto(t, "idle")
    /\ frame' = [frame EXCEPT ![t] = IdleFrame]
    /\ UNCHANGED <<recorded, keyOrder, event, hint>>
    /\ ThreadVarsUnchanged

(* The exception leaves should_rate_limit. *)
Raise(t) ==
    /\ pc[t] = "raise"
    /\ ret' = [NoRet EXCEPT !.op = "should_rate_limit", !.raised = TRUE,
                            !.inner_raised = TRUE, !.exc = frame[t].exc,
                            !.fingerprint = frame[t].fingerprint,
                            !.at = frame[t].now]
    /\ Goto(t, "idle")
    /\ frame' = [frame EXCEPT ![t] = IdleFrame]
    /\ UNCHANGED <<recorded, keyOrder, event, hint, history>>
    /\ ThreadVarsUnchanged

ThreadTick(d) ==
    /\ now + d <= ThreadMaxTime
    /\ Tick(d)

NextThreads ==
    \/ \E d \in ClockSteps : ThreadTick(d)
    \/ \E t \in Threads, in \in ThreadInputs : Enter(t, in[1], in[2])
    \/ \E t \in Threads : PurgeStart(t)
    \/ \E t \in Threads : PurgeNext(t)
    \/ \E t \in Threads : PurgeTest(t)
    \/ \E t \in Threads : PurgeHead(t)
    \/ \E t \in Threads : PurgePop(t)
    \/ \E t \in Threads : Lookup(t)
    \/ \E t \in Threads : CheckCap(t)
    \/ \E t \in Threads : AppendNow(t)
    \/ \E t \in Threads : Return(t)
    \/ \E t \in Threads : Raise(t)

SpecThreads == Init /\ [][NextThreads]_vars

(* C2: under every interleaving of concurrent should_rate_limit calls no   *)
(* record holds more than rate_limit_number_of_events timestamps that are  *)
(* inside the window, two calls never both append after both having seen   *)
(* a length below the cap.                                                 *)
C2_AtomicPerFingerprint ==
    \A f \in DOMAIN recorded :
        Len(InWindow(recorded[f], now)) <= rate_limit_number_of_events

(* No thread has failed inside its purge: neither the dict iterator        *)
(* (RuntimeError: dictionary changed size during iteration) nor the read   *)
(* or pop of the front of a deque (IndexError) has raised.                 *)
NoPurgeFailure ==
    \A t \in Threads : frame[t].exc \notin {"RuntimeError", "IndexError"}

(* A thread that pops pops a timestamp older than its own boundary. *)
PopsOnlyExpired ==
    \A t \in Threads :
        (pc[t] = "purge_pop" /\ pc'[t] = "purge_test") =>
            Head(CurrentDeque(t)) < frame[t].now - rate_limit_window

(* C20: under every interleaving of concurrent should_rate_limit calls no  *)
(* call fails in its purge because another call changed the mapping or a   *)
(* deque in between, and every timestamp popped is older than now - window *)
(* of the call that pops it.                                               *)
C20_ConcurrentPurgeSafe ==
    /\ []NoPurgeFailure
    /\ [][PopsOnlyExpired]_vars

====
